---- MODULE Spec2Model ----
\* A model of timeflipv1client (Timeflip1Client over a BLE transport).
\*
\* The client is a Python asyncio object.  A coroutine runs without
\* interruption until it awaits a transport call, so every action below is
\* one such uninterrupted piece: the call of an operation up to the first
\* transport call it issues, or the completion of a pending transport call up
\* to the next one issued (or to the return / raise of the operation).  The
\* decorators' wrappers are plain functions, so for a coroutine that is made
\* and driven later the wrapper's test (Create) and the first piece of the
\* body (Start) are separate pieces.  Several tasks may share the one client
\* object.
EXTENDS Integers, Sequences, FiniteSets, TLC

\* ---------------------------------------------------------------- bounds
\* At most this many non-sentinel packets are delivered to one get_history.
MaxPackets == 2
\* set_auto_pause is admitted while fewer than this many payloads have been
\* appended to COMMANDS["auto_pause"].
MaxExtends == 2

\* ------------------------------------------------------ program constants
COMMAND_ERROR == 1
COMMAND_OK == 2
COMMAND_RESULT_LEN == 21
STATUS_FLAG_TRUE == 1
STATUS_FLAG_FALSE == 2

COMMANDS0 ==
  [ auto_pause        |-> <<5>>,
    calibration_reset |-> <<3>>,
    history           |-> <<1>>,
    history_delete    |-> <<2>>,
    lock_off          |-> <<4, STATUS_FLAG_FALSE>>,
    lock_on           |-> <<4, STATUS_FLAG_TRUE>>,
    pause_off         |-> <<6, STATUS_FLAG_FALSE>>,
    pause_on          |-> <<6, STATUS_FLAG_TRUE>>,
    status            |-> <<16>> ]

\* The callers sharing one client object.
Tasks == {"A", "B"}

\* ------------------------------------------------------------ byte helpers
RECURSIVE FromBytes(_)
\* int.from_bytes(b, "little")
FromBytes(b) ==
  IF b = <<>> THEN 0 ELSE b[1] + 256 * FromBytes(Tail(b))

RECURSIVE ToBytes(_, _)
\* int.to_bytes(n, k, "little") for 0 <= n < 256^k
ToBytes(n, k) ==
  IF k = 0 THEN <<>> ELSE <<n % 256>> \o ToBytes(n \div 256, k - 1)

\* n fits k bytes unsigned (int.to_bytes raises OverflowError otherwise)
FitsBytes(n, k) == n >= 0 /\ (k = 0 => n = 0) /\ (k > 0 => n \div (256 ^ (k - 1)) < 256)

\* Python slice b[lo:hi] with 0 <= lo <= hi (0-based, clipped to the length)
Slice(b, lo, hi) ==
  LET h == IF hi < Len(b) THEN hi ELSE Len(b)
  IN  IF lo >= h THEN <<>> ELSE SubSeq(b, lo + 1, h)

\* bytearray(n)
ZeroBytes(n) == [i \in 1..n |-> 0]

VARIABLES
  logged_in,        \* self.logged_in
  connected,        \* self.connected
  calibrated,       \* self.calibrated
  auto_pause_time,  \* self.auto_pause_time (unset until set_auto_pause succeeds)
  COMMANDS,         \* the module-level command table (its entries are mutable bytearrays)
  link,             \* transport: the BLE link is up
  subscribed,       \* transport: a notification handler is registered on "facet"
  pc,               \* per task: "idle", or the await at which the task is suspended
  op,               \* per task: the operation last called
  outcome,          \* per task: "none", "running", "returned" or the exception raised
  ret,              \* per task: the value returned by the last operation
  calls,            \* per task: transport calls issued by the current operation, in order
  reads,            \* per task: values the transport returned to the current operation's reads
  command,          \* per task: the command argument of _run_command
  histories,        \* per task: get_history's local list
  num_histories,    \* per task: get_history's local counter
  time,             \* per task: set_auto_pause's argument
  arg,              \* per task: the argument bound in a coroutine made but not yet started
  ctx,              \* per task: position in "async with client:" ("none" outside one)
  codec             \* a record's way through the device's encoding and get_history's decoding

session == <<logged_in, connected, calibrated, auto_pause_time>>
transport == <<link, subscribed>>
\* the locals of a running body, and all per-task data of the operations
frame == <<command, histories, num_histories, time>>
locals == <<command, histories, num_histories, time, arg>>
vars == <<logged_in, connected, calibrated, auto_pause_time, COMMANDS, link,
          subscribed, pc, op, outcome, ret, calls, reads, command, histories,
          num_histories, time, arg, ctx, codec>>

None == [kind |-> "None"]
IntVal(n) == [kind |-> "int", val |-> n]
BytesVal(b) == [kind |-> "bytes", val |-> b]

\* A transport call as logged: which primitive, on which characteristic, and
\* the bytes written (<<>> for the other primitives).
Call(kind, char, data) == <<kind, char, data>>

\* Outcomes of an awaited transport call: it returns, it raises the
\* transport's BleakError, or the await ends with an exception of another
\* class (the task was cancelled).  A call can only succeed while the link is
\* up (connect itself excepted).
Outcomes == {"ok", "BleakError", "CancelledError"}
CanSucceed(o) == o = "ok" => link

InitTasks(c) ==
  /\ pc = [t \in Tasks |-> "idle"]
  /\ op = [t \in Tasks |-> "none"]
  /\ outcome = [t \in Tasks |-> "none"]
  /\ ret = [t \in Tasks |-> None]
  /\ calls = [t \in Tasks |-> <<>>]
  /\ reads = [t \in Tasks |-> <<>>]
  /\ command = [t \in Tasks |-> <<>>]
  /\ histories = [t \in Tasks |-> <<>>]
  /\ num_histories = [t \in Tasks |-> 0]
  /\ time = [t \in Tasks |-> 0]
  /\ arg = [t \in Tasks |-> None]
  /\ ctx = c

CodecIdle == [stage |-> "none", facet |-> 0, duration |-> 0, record |-> <<>>, result |-> <<>>]

\* Timeflip1Client.__init__
Init ==
  /\ logged_in = FALSE
  /\ connected = FALSE
  /\ calibrated = FALSE
  /\ auto_pause_time = None
  /\ COMMANDS = COMMANDS0
  /\ link = FALSE
  /\ subscribed = FALSE
  /\ InitTasks([t \in Tasks |-> "none"])
  /\ codec = CodecIdle

\* ------------------------------------------------------------ task steps
\* The position in "async with" after a step that leaves the task at newpc
\* with newout: __aenter__ returns when connect returns and lets connect's
\* exception out otherwise (Python then never calls __aexit__); __aexit__ is
\* over when disconnect is.
CtxNext(c, newpc, newout) ==
  IF newpc # "idle" THEN c
  ELSE IF c = "entering" THEN (IF newout = "returned" THEN "body" ELSE "failed")
  ELSE IF c = "exiting" THEN "exited"
  ELSE c

TaskStep(t, c, newpc, newout, newret, newcalls, newreads) ==
  /\ pc' = [pc EXCEPT ![t] = newpc]
  /\ outcome' = [outcome EXCEPT ![t] = newout]
  /\ ret' = [ret EXCEPT ![t] = newret]
  /\ calls' = [calls EXCEPT ![t] = newcalls]
  /\ reads' = [reads EXCEPT ![t] = newreads]
  /\ ctx' = [ctx EXCEPT ![t] = CtxNext(c, newpc, newout)]
  /\ UNCHANGED codec

\* An operation is called and raises before any await.
CallRaise(t, c, name, exc) ==
  /\ op' = [op EXCEPT ![t] = name]
  /\ TaskStep(t, c, "idle", exc, None, <<>>, <<>>)

\* An operation is called and runs up to its first transport call.
CallAwait(t, c, name, loc, call) ==
  /\ op' = [op EXCEPT ![t] = name]
  /\ TaskStep(t, c, loc, "running", None, <<call>>, <<>>)

\* A body whose first statement is the await of a transport call.
FirstCall(t, c, name, loc, call) ==
  /\ CallAwait(t, c, name, loc, call)
  /\ UNCHANGED <<session, COMMANDS, transport, frame>>

\* A pending transport call completed; the operation issues its next one.
ThenAwait(t, loc, call, got) ==
  /\ UNCHANGED op
  /\ TaskStep(t, ctx[t], loc, "running", None, Append(calls[t], call), reads[t] \o got)

ThenRaise(t, exc, got) ==
  /\ UNCHANGED op
  /\ TaskStep(t, ctx[t], "idle", exc, None, calls[t], reads[t] \o got)

ThenReturn(t, v, got) ==
  /\ UNCHANGED op
  /\ TaskStep(t, ctx[t], "idle", "returned", v, calls[t], reads[t] \o got)

\* A task may call an operation when it is not inside one, directly or from
\* the body of its "async with".
CanCall(t) == pc[t] = "idle" /\ ctx[t] \in {"none", "body"}

\* ------------------------------------------------------------ decorators
\* The operations decorated with @connected and with @logged_in.
ConnectedGatedOps == {"disconnect", "login", "battery_level", "firmware_revision"}

LoginGatedOps ==
  {"setup_facets", "stop_setup_facets", "get_status", "unpause", "get_history",
   "clear_history", "set_auto_pause", "reset_calibration", "get_current_facet",
   "get_current_calibration_version", "set_current_calibration_version"}

\* A mutation of the connected gate that admits every call.
ConnectedGateMissing == TRUE

\* @connected: the wrapper's test, made when the operation is called
ConnectedGate == connected

\* A mutation of the login gate that tests the wrong flag.
LoggedInGateWrongFlag == connected

\* @logged_in: the wrapper's test, made when the operation is called
LoggedInGate == logged_in

\* "await client.op(...)": the wrapper, a plain function, tests the gate and
\* raises when it is closed; else it calls the async def and the coroutine it
\* gets is awaited at once, so the body runs up to its first transport call
\* with nothing in between.
GatedCall(t, c, gate, exc, name, body) ==
  /\ IF ~gate
     THEN /\ CallRaise(t, c, name, exc)
          /\ UNCHANGED <<session, COMMANDS, transport, frame>>
     ELSE body
  /\ UNCHANGED arg

GateOf(name) == IF name \in ConnectedGatedOps THEN ConnectedGate ELSE LoggedInGate

\* "client.op(...)" evaluated for a task that is driven later (create_task,
\* ensure_future, gather): the wrapper finds the gate open and returns the
\* coroutine object with the argument bound; no statement of the body has run.
\* (With the gate closed the wrapper raises, as in GatedCall.)
Create(t, name, a) ==
  /\ CanCall(t)
  /\ GateOf(name)
  /\ op' = [op EXCEPT ![t] = name]
  /\ TaskStep(t, ctx[t], "created", "running", None, <<>>, <<>>)
  /\ arg' = [arg EXCEPT ![t] = a]
  /\ UNCHANGED <<session, COMMANDS, transport, command, histories, num_histories, time>>

\* ------------------------------------------------- values the device returns
\* read_gatt_char("facet"): empty while not logged in, else the facet id
FacetReads == {<<>>, <<5>>}
BatteryReads == {<<87>>}
\* "2" and a byte that is not ASCII
FirmwareReads == {<<50>>, <<200>>}
\* DEFAULT_PASSWORD.encode("ascii")
Passwords == {<<48, 48, 48, 48, 48, 48>>}

\* ------------------------------------------------------ connect / disconnect
ConnectCall(t, c) ==
  /\ CallAwait(t, c, "connect", "connect_link", Call("connect", "", <<>>))
  /\ UNCHANGED <<session, COMMANDS, transport, locals>>

Connect(t) == CanCall(t) /\ ConnectCall(t, ctx[t])

\* What the transport's connect() returns when it does not raise, as a truth
\* value (the only use of self.connected is "not self.connected"): True, or a
\* false value (False, or None from a transport whose connect returns nothing).
ConnectReturns == {TRUE, FALSE}

\* super().connect() completed.  Whatever it returned, r, is stored in
\* self.connected and the probe read of the facet characteristic is issued;
\* the bare "except:" turns every exception, a cancellation included, into
\* NotConnectedException.
ConnectLinkDone(t, o, r) ==
  /\ pc[t] = "connect_link"
  /\ IF o = "ok"
     THEN /\ connected' = r
          /\ link' = TRUE
          /\ ThenAwait(t, "connect_probe", Call("read", "facet", <<>>), <<>>)
     ELSE /\ ThenRaise(t, "NotConnectedException", <<>>)
          /\ UNCHANGED <<connected, link>>
  /\ UNCHANGED <<logged_in, calibrated, auto_pause_time, COMMANDS, subscribed, locals>>

\* The probe read completed: connect() returns, or "except BleakError" turns
\* the transport's error into NotTimeFlipDeviceException; an exception of any
\* other class is not caught and leaves connect() as it is.
ConnectProbeDone(t, o, f) ==
  /\ pc[t] = "connect_probe"
  /\ CanSucceed(o)
  /\ IF o = "ok" THEN ThenReturn(t, None, <<f>>)
     ELSE IF o = "BleakError" THEN ThenRaise(t, "NotTimeFlipDeviceException", <<>>)
     ELSE ThenRaise(t, o, <<>>)
  /\ UNCHANGED <<session, COMMANDS, transport, locals>>

\* A mutation of disconnect that tears the link down without unsubscribing.
DisconnectBodyNoUnsubscribe(t, c) ==
  FirstCall(t, c, "disconnect", "disconnect_link", Call("disconnect", "", <<>>))

\* The body of disconnect(): unsubscribes first when self.calibrated.  The
\* try block only re-raises, so every exception leaves the method.
DisconnectBody(t, c) ==
  IF calibrated
  THEN FirstCall(t, c, "disconnect", "disconnect_stop_notify",
                 Call("stop_notify", "facet", <<>>))
  ELSE FirstCall(t, c, "disconnect", "disconnect_link", Call("disconnect", "", <<>>))

\* await client.disconnect(): behind @connected
DisconnectCall(t, c) ==
  GatedCall(t, c, ConnectedGate, "NotConnectedException", "disconnect",
            DisconnectBody(t, c))

Disconnect(t) == CanCall(t) /\ DisconnectCall(t, ctx[t])

DisconnectStopNotifyDone(t, o) ==
  /\ pc[t] = "disconnect_stop_notify"
  /\ CanSucceed(o)
  /\ IF o = "ok"
     THEN /\ subscribed' = FALSE
          /\ ThenAwait(t, "disconnect_link", Call("disconnect", "", <<>>), <<>>)
     ELSE /\ ThenRaise(t, o, <<>>)
          /\ UNCHANGED subscribed
  /\ UNCHANGED <<session, COMMANDS, link, locals>>

\* super().disconnect() completed.  No flag of the client is assigned.
DisconnectLinkDone(t, o) ==
  /\ pc[t] = "disconnect_link"
  /\ IF o = "ok"
     THEN /\ link' = FALSE
          /\ subscribed' = FALSE
          /\ ThenReturn(t, None, <<>>)
     ELSE /\ ThenRaise(t, o, <<>>)
          /\ UNCHANGED transport
  /\ UNCHANGED <<session, COMMANDS, locals>>

\* ------------------------------------------------------ connected-gated reads
BatteryLevelBody(t, c) ==
  FirstCall(t, c, "battery_level", "battery_read", Call("read", "battery_level", <<>>))

BatteryLevel(t) ==
  /\ CanCall(t)
  /\ GatedCall(t, ctx[t], ConnectedGate, "NotConnectedException", "battery_level",
               BatteryLevelBody(t, ctx[t]))

BatteryReadDone(t, o, d) ==
  /\ pc[t] = "battery_read"
  /\ CanSucceed(o)
  /\ IF o = "ok" THEN ThenReturn(t, IntVal(FromBytes(d)), <<d>>)
     ELSE ThenRaise(t, o, <<>>)
  /\ UNCHANGED <<session, COMMANDS, transport, locals>>

FirmwareRevisionBody(t, c) ==
  FirstCall(t, c, "firmware_revision", "firmware_read",
            Call("read", "firmware_revision", <<>>))

FirmwareRevision(t) ==
  /\ CanCall(t)
  /\ GatedCall(t, ctx[t], ConnectedGate, "NotConnectedException", "firmware_revision",
               FirmwareRevisionBody(t, ctx[t]))

\* bytes.decode("ascii"): the code points, or UnicodeDecodeError
FirmwareReadDone(t, o, d) ==
  /\ pc[t] = "firmware_read"
  /\ CanSucceed(o)
  /\ IF o # "ok" THEN ThenRaise(t, o, <<>>)
     ELSE IF \E i \in 1..Len(d) : d[i] > 127 THEN ThenRaise(t, "UnicodeDecodeError", <<d>>)
     ELSE ThenReturn(t, [kind |-> "str", val |-> d], <<d>>)
  /\ UNCHANGED <<session, COMMANDS, transport, locals>>

\* ------------------------------------------------------------------- login
LoginBody(t, c, password) ==
  FirstCall(t, c, "login", "login_write", Call("write", "password_input", password))

Login(t, password) ==
  /\ CanCall(t)
  /\ GatedCall(t, ctx[t], ConnectedGate, "NotConnectedException", "login",
               LoginBody(t, ctx[t], password))

LoginWriteDone(t, o) ==
  /\ pc[t] = "login_write"
  /\ CanSucceed(o)
  /\ IF o = "ok" THEN ThenAwait(t, "login_probe", Call("read", "facet", <<>>), <<>>)
     ELSE ThenRaise(t, o, <<>>)
  /\ UNCHANGED <<session, COMMANDS, transport, locals>>

\* A mutation of the login heuristic that accepts every probe read.
LoginProbeOkAlways(f) == TRUE

\* len(f) > 0 and f[0] != b"": f[0] is an int, which never equals a bytes
\* object, so the second conjunct is True whenever it is evaluated.
LoginProbeOk(f) == Len(f) > 0 /\ TRUE

LoginProbeDone(t, o, f) ==
  /\ pc[t] = "login_probe"
  /\ CanSucceed(o)
  /\ IF o = "ok"
     THEN /\ logged_in' = LoginProbeOk(f)
          /\ ThenReturn(t, None, <<f>>)
     ELSE /\ ThenRaise(t, o, <<>>)
          /\ UNCHANGED logged_in
  /\ UNCHANGED <<connected, calibrated, auto_pause_time, COMMANDS, transport, locals>>

\* ------------------------------------------------------ facet notifications
\* setup_facets: self.calibrated = True, then await start_notify
SetupFacetsBody(t, c) ==
  /\ calibrated' = TRUE
  /\ CallAwait(t, c, "setup_facets", "setup_start_notify",
               Call("start_notify", "facet", <<>>))
  /\ UNCHANGED <<logged_in, connected, auto_pause_time, COMMANDS, transport, frame>>

SetupFacets(t) ==
  /\ CanCall(t)
  /\ GatedCall(t, ctx[t], LoggedInGate, "CommandRequiresLoginException", "setup_facets",
               SetupFacetsBody(t, ctx[t]))

SetupStartNotifyDone(t, o) ==
  /\ pc[t] = "setup_start_notify"
  /\ CanSucceed(o)
  /\ IF o = "ok"
     THEN /\ subscribed' = TRUE
          /\ ThenReturn(t, None, <<>>)
     ELSE /\ ThenRaise(t, o, <<>>)
          /\ UNCHANGED subscribed
  /\ UNCHANGED <<session, COMMANDS, link, locals>>

\* stop_setup_facets: await stop_notify; no flag is assigned
StopSetupFacetsBody(t, c) ==
  FirstCall(t, c, "stop_setup_facets", "stop_stop_notify",
            Call("stop_notify", "facet", <<>>))

StopSetupFacets(t) ==
  /\ CanCall(t)
  /\ GatedCall(t, ctx[t], LoggedInGate, "CommandRequiresLoginException",
               "stop_setup_facets", StopSetupFacetsBody(t, ctx[t]))

StopStopNotifyDone(t, o) ==
  /\ pc[t] = "stop_stop_notify"
  /\ CanSucceed(o)
  /\ IF o = "ok"
     THEN /\ subscribed' = FALSE
          /\ ThenReturn(t, None, <<>>)
     ELSE /\ ThenRaise(t, o, <<>>)
          /\ UNCHANGED subscribed
  /\ UNCHANGED <<session, COMMANDS, link, locals>>

\* --------------------------------------------------------- command executor
\* The operations that pass check_if_successful=True to _run_command.
CheckIfSuccessful(name) == name \in {"get_status", "set_auto_pause"}

\* A mutation of the echo test that ignores the echoed opcode.
RunCommandSuccessfulStatusOnly(cmd, e) == e[2] = COMMAND_OK

\* successful = exec_command == command[0] and result == COMMAND_OK
RunCommandSuccessful(cmd, e) == e[1] = cmd[1] /\ e[2] = COMMAND_OK

\* A body that starts with _run_command(cmd, ...): the write of cmd to
\* command_input is the first transport call.
RunCommandCall(t, c, name, cmd) ==
  /\ CallAwait(t, c, name, "command_write", Call("write", "command_input", cmd))
  /\ command' = [command EXCEPT ![t] = cmd]

\* The body of a login-gated operation that only runs a command of the table.
CommandBody(t, c, name, cmd) ==
  /\ RunCommandCall(t, c, name, cmd)
  /\ UNCHANGED <<session, COMMANDS, transport, histories, num_histories, time>>

LoggedInCall(t, name, body) ==
  /\ CanCall(t)
  /\ GatedCall(t, ctx[t], LoggedInGate, "CommandRequiresLoginException", name, body)

\* write_gatt_char(command_input) completed.  With check_if_successful the
\* echo is read from command_input; without it _run_command returns and the
\* caller goes on: get_history reads command_result, the triggers return.
CommandWriteDone(t, o) ==
  /\ pc[t] = "command_write"
  /\ CanSucceed(o)
  /\ IF o # "ok" THEN ThenRaise(t, o, <<>>)
     ELSE IF CheckIfSuccessful(op[t])
       THEN ThenAwait(t, "command_echo", Call("read", "command_input", <<>>), <<>>)
     ELSE IF op[t] = "get_history"
       THEN ThenAwait(t, "history_read", Call("read", "command_result", <<>>), <<>>)
     ELSE ThenReturn(t, None, <<>>)
  /\ UNCHANGED <<session, COMMANDS, transport, locals>>

\* read_gatt_char(command_input) completed: "exec_command, result = ..."
\* unpacks exactly two bytes (ValueError otherwise), then the echo test.
\* After it get_status reads command_result and set_auto_pause stores time.
CommandEchoDone(t, o, e) ==
  /\ pc[t] = "command_echo"
  /\ CanSucceed(o)
  /\ IF o # "ok" THEN ThenRaise(t, o, <<>>) /\ UNCHANGED auto_pause_time
     ELSE IF Len(e) # 2 THEN ThenRaise(t, "ValueError", <<e>>) /\ UNCHANGED auto_pause_time
     ELSE IF ~RunCommandSuccessful(command[t], e)
       THEN ThenRaise(t, "CommandExecutionException", <<e>>) /\ UNCHANGED auto_pause_time
     ELSE IF op[t] = "get_status"
       THEN /\ ThenAwait(t, "result_read", Call("read", "command_result", <<>>), <<e>>)
            /\ UNCHANGED auto_pause_time
     ELSE /\ ThenReturn(t, None, <<e>>)
          /\ auto_pause_time' = IntVal(time[t])
  /\ UNCHANGED <<logged_in, connected, calibrated, COMMANDS, transport, locals>>

\* ------------------------------------------------------------- get_status
\* A mutation of the status decoding that reads the auto-pause time big-endian.
StatusOfBigEndian(d) ==
  [ kind |-> "status",
    locked |-> d[1] = STATUS_FLAG_TRUE,
    paused |-> d[2] = STATUS_FLAG_TRUE,
    auto_pause_time |-> (256 * d[3]) + d[4] ]

\* locked, paused, *data = <the 21 bytes>
StatusOf(d) ==
  [ kind |-> "status",
    locked |-> d[1] = STATUS_FLAG_TRUE,
    paused |-> d[2] = STATUS_FLAG_TRUE,
    auto_pause_time |-> FromBytes(Slice(Slice(d, 2, Len(d)), 0, 2)) ]

GetStatusBody(t, c) == CommandBody(t, c, "get_status", COMMANDS.status)

GetStatus(t) == LoggedInCall(t, "get_status", GetStatusBody(t, ctx[t]))

\* A mutation of the result read that accepts a result of any length.
ResultReadDoneAnyLength(t, o, d) ==
  /\ pc[t] = "result_read"
  /\ CanSucceed(o)
  /\ IF o # "ok" THEN ThenRaise(t, o, <<>>)
     ELSE ThenReturn(t, StatusOf(d), <<d>>)
  /\ UNCHANGED <<session, COMMANDS, transport, locals>>

\* _run_command_and_read_output: the result must be COMMAND_RESULT_LEN long
ResultReadDone(t, o, d) ==
  /\ pc[t] = "result_read"
  /\ CanSucceed(o)
  /\ IF o # "ok" THEN ThenRaise(t, o, <<>>)
     ELSE IF Len(d) # COMMAND_RESULT_LEN THEN ThenRaise(t, "CommandResultException", <<d>>)
     ELSE ThenReturn(t, StatusOf(d), <<d>>)
  /\ UNCHANGED <<session, COMMANDS, transport, locals>>

\* ------------------------------------------------------ one-shot triggers
UnpauseBody(t, c) == CommandBody(t, c, "unpause", COMMANDS.pause_off)

Unpause(t) == LoggedInCall(t, "unpause", UnpauseBody(t, ctx[t]))

ClearHistoryBody(t, c) == CommandBody(t, c, "clear_history", COMMANDS.history_delete)

ClearHistory(t) == LoggedInCall(t, "clear_history", ClearHistoryBody(t, ctx[t]))

ResetCalibrationBody(t, c) ==
  CommandBody(t, c, "reset_calibration", COMMANDS.calibration_reset)

ResetCalibration(t) ==
  LoggedInCall(t, "reset_calibration", ResetCalibrationBody(t, ctx[t]))

\* ---------------------------------------------------------- set_auto_pause
\* A mutation of the range tests that forgets the upper one.
AutoPauseInvalidNegativeOnly(tm) == tm < 0

\* The two range tests that raise ValueError (time >> 16 > 0 for time >= 0).
AutoPauseInvalid(tm) == tm < 0 \/ tm \div 65536 > 0

\* A task is suspended inside the _run_command of set_auto_pause: its local
\* "command" is the bytearray of COMMANDS["auto_pause"] itself.
HoldsAutoPauseCommand(u) ==
  op[u] = "set_auto_pause" /\ pc[u] \in {"command_write", "command_echo"}

\* command = COMMANDS["auto_pause"]; command.extend(...): command is the
\* table's own bytearray, so the payload is appended to the table entry and
\* shows in the "command" of every task that holds the same bytearray.
\* The table entry is extended at most MaxExtends times.
SetAutoPauseBody(t, c, tm) ==
  IF AutoPauseInvalid(tm)
  THEN /\ CallRaise(t, c, "set_auto_pause", "ValueError")
       /\ UNCHANGED <<session, COMMANDS, transport, frame>>
  ELSE LET cmd == COMMANDS.auto_pause \o ToBytes(tm, 2)
       IN  /\ Len(COMMANDS.auto_pause) < 1 + 2 * MaxExtends
           /\ COMMANDS' = [COMMANDS EXCEPT !.auto_pause = cmd]
           /\ CallAwait(t, c, "set_auto_pause", "command_write",
                        Call("write", "command_input", cmd))
           /\ command' = [u \in Tasks |->
                            IF u = t \/ HoldsAutoPauseCommand(u) THEN cmd
                            ELSE command[u]]
           /\ time' = [time EXCEPT ![t] = tm]
           /\ UNCHANGED <<session, transport, histories, num_histories>>

SetAutoPause(t, tm) ==
  LoggedInCall(t, "set_auto_pause", SetAutoPauseBody(t, ctx[t], tm))

\* ------------------------------------------------- facet and calibration
GetCurrentFacetBody(t, c) ==
  FirstCall(t, c, "get_current_facet", "facet_read", Call("read", "facet", <<>>))

GetCurrentFacet(t) ==
  LoggedInCall(t, "get_current_facet", GetCurrentFacetBody(t, ctx[t]))

GetCurrentCalibrationVersionBody(t, c) ==
  FirstCall(t, c, "get_current_calibration_version", "facet_read",
            Call("read", "calibration_version", <<>>))

GetCurrentCalibrationVersion(t) ==
  LoggedInCall(t, "get_current_calibration_version",
               GetCurrentCalibrationVersionBody(t, ctx[t]))

\* get_current_facet / get_current_calibration_version: int.from_bytes(<read>)
IntReadDone(t, o, d) ==
  /\ pc[t] = "facet_read"
  /\ CanSucceed(o)
  /\ IF o = "ok" THEN ThenReturn(t, IntVal(FromBytes(d)), <<d>>)
     ELSE ThenRaise(t, o, <<>>)
  /\ UNCHANGED <<session, COMMANDS, transport, locals>>

\* payload = int.to_bytes(version, 4, ENDIANNESS) raises OverflowError
SetCurrentCalibrationVersionBody(t, c, version) ==
  IF ~FitsBytes(version, 4)
  THEN /\ CallRaise(t, c, "set_current_calibration_version", "OverflowError")
       /\ UNCHANGED <<session, COMMANDS, transport, frame>>
  ELSE FirstCall(t, c, "set_current_calibration_version", "calibration_write",
                 Call("write", "calibration_version", ToBytes(version, 4)))

SetCurrentCalibrationVersion(t, version) ==
  LoggedInCall(t, "set_current_calibration_version",
               SetCurrentCalibrationVersionBody(t, ctx[t], version))

CalibrationWriteDone(t, o) ==
  /\ pc[t] = "calibration_write"
  /\ CanSucceed(o)
  /\ IF o = "ok" THEN ThenReturn(t, None, <<>>) ELSE ThenRaise(t, o, <<>>)
  /\ UNCHANGED <<session, COMMANDS, transport, locals>>

\* ------------------------------------------------------------- get_history
\* empty = bytearray(21)
EmptyPacket == ZeroBytes(21)

\* A mutation of the record decoding that leaves the facet bits in the third byte.
DecodeRecordUnmasked(history) == <<history[3] \div 4, FromBytes(history)>>

\* facet = history[2] >> 2; history[2] &= 3; int.from_bytes(history, "little")
DecodeRecord(history) ==
  <<history[3] \div 4, FromBytes([history EXCEPT ![3] = @ % 4])>>

\* history = data[i * 3 : (i + 1) * 3] for i in range(7)
RecordSlice(data, i) == Slice(data, i * 3, (i + 1) * 3)

\* history[2] raises IndexError on a slice shorter than 3 bytes
PacketDecodable(data) == \A i \in 0..6 : Len(RecordSlice(data, i)) = 3

\* The 7 (facet, time_in_seconds) pairs one packet appends to histories.
DecodePacket(data) == [i \in 1..7 |-> DecodeRecord(RecordSlice(data, i - 1))]

\* A mutation of the sentinel test that compares with a buffer one byte short.
IsEmptyPacketWrongLength(data) == data = ZeroBytes(20)

\* data == empty
IsEmptyPacket(data) == data = EmptyPacket

\* A mutation of the counter that keeps the largest value seen.
NextNumHistoriesMax(old, data) ==
  IF FromBytes(Slice(data, 0, 2)) > old THEN FromBytes(Slice(data, 0, 2)) ELSE old

\* num_histories = int.from_bytes(data[:2], ENDIANNESS), at every packet
NextNumHistories(old, data) == FromBytes(Slice(data, 0, 2))

RECURSIVE DurationsOf(_, _)
\* The times of the entries of h with the given facet, in order.
DurationsOf(h, facet) ==
  IF h = <<>> THEN <<>>
  ELSE (IF h[1][1] = facet THEN <<h[1][2]>> ELSE <<>>) \o DurationsOf(Tail(h), facet)

\* The loop building result: one list per facet, in arrival order.
GroupByFacet(h) ==
  [facet \in {h[i][1] : i \in 1..Len(h)} |-> DurationsOf(h, facet)]

\* histories = histories[:num_histories], then the grouping
HistoryResult(h, n) == [kind |-> "dict", val |-> GroupByFacet(Slice(h, 0, n))]

\* result = {}; histories = []; num_histories = 0; _run_command(history)
GetHistoryBody(t, c) ==
  /\ RunCommandCall(t, c, "get_history", COMMANDS.history)
  /\ histories' = [histories EXCEPT ![t] = <<>>]
  /\ num_histories' = [num_histories EXCEPT ![t] = 0]
  /\ UNCHANGED <<session, COMMANDS, transport, time>>

GetHistory(t) == LoggedInCall(t, "get_history", GetHistoryBody(t, ctx[t]))

\* A mutation of the read loop that stops as soon as the records read cover
\* the counter of the packet just read.
HistoryReadDoneUntilCounter(t, o, data) ==
  /\ pc[t] = "history_read"
  /\ CanSucceed(o)
  /\ (o = "ok" /\ ~IsEmptyPacket(data)) => Len(reads[t]) < MaxPackets
  /\ IF o # "ok"
     THEN /\ ThenRaise(t, o, <<>>)
          /\ UNCHANGED <<histories, num_histories>>
     ELSE IF IsEmptyPacket(data)
     THEN /\ ThenReturn(t, HistoryResult(histories[t], num_histories[t]), <<data>>)
          /\ UNCHANGED <<histories, num_histories>>
     ELSE IF ~PacketDecodable(data)
     THEN /\ ThenRaise(t, "IndexError", <<data>>)
          /\ num_histories' = [num_histories EXCEPT ![t] = NextNumHistories(@, data)]
          /\ UNCHANGED histories
     ELSE IF Len(histories[t]) + 7 >= NextNumHistories(num_histories[t], data)
     THEN /\ ThenReturn(t, HistoryResult(histories[t] \o DecodePacket(data),
                                         NextNumHistories(num_histories[t], data)),
                        <<data>>)
          /\ num_histories' = [num_histories EXCEPT ![t] = NextNumHistories(@, data)]
          /\ histories' = [histories EXCEPT ![t] = @ \o DecodePacket(data)]
     ELSE /\ ThenAwait(t, "history_read", Call("read", "command_result", <<>>), <<data>>)
          /\ num_histories' = [num_histories EXCEPT ![t] = NextNumHistories(@, data)]
          /\ histories' = [histories EXCEPT ![t] = @ \o DecodePacket(data)]
  /\ UNCHANGED <<session, COMMANDS, transport, command, time, arg>>

\* One turn of "while True": the read of command_result completed.  The
\* device delivers at most MaxPackets packets other than the sentinel.
\* A packet too short for 7 records raises IndexError at history[2]; the
\* records appended before it are lost with the frame.
HistoryReadDone(t, o, data) ==
  /\ pc[t] = "history_read"
  /\ CanSucceed(o)
  /\ (o = "ok" /\ ~IsEmptyPacket(data)) => Len(reads[t]) < MaxPackets
  /\ IF o # "ok"
     THEN /\ ThenRaise(t, o, <<>>)
          /\ UNCHANGED <<histories, num_histories>>
     ELSE IF IsEmptyPacket(data)
     THEN /\ ThenReturn(t, HistoryResult(histories[t], num_histories[t]), <<data>>)
          /\ UNCHANGED <<histories, num_histories>>
     ELSE IF ~PacketDecodable(data)
     THEN /\ ThenRaise(t, "IndexError", <<data>>)
          /\ num_histories' = [num_histories EXCEPT ![t] = NextNumHistories(@, data)]
          /\ UNCHANGED histories
     ELSE /\ ThenAwait(t, "history_read", Call("read", "command_result", <<>>), <<data>>)
          /\ num_histories' = [num_histories EXCEPT ![t] = NextNumHistories(@, data)]
          /\ histories' = [histories EXCEPT ![t] = @ \o DecodePacket(data)]
  /\ UNCHANGED <<session, COMMANDS, transport, command, time, arg>>

\* ------------------------------------------------------ async with client:
\* __aenter__: await self.connect()
AEnter(t) ==
  /\ ctx[t] = "enter"
  /\ pc[t] = "idle"
  /\ ConnectCall(t, "entering")

\* __aexit__: await self.disconnect(), when the body ends (normally or by an
\* exception that was raised in it, which disconnect's own outcome replaces).
AExit(t) ==
  /\ ctx[t] = "body"
  /\ pc[t] = "idle"
  /\ DisconnectCall(t, "exiting")

\* ------------------------------------------------------------------ inputs
\* (echoed opcode, status) pairs read back from command_input, and a read
\* that is no pair
EchoReads == {<<5, COMMAND_OK>>, <<5, COMMAND_ERROR>>, <<16, COMMAND_OK>>,
              <<16, COMMAND_ERROR>>, <<>>}

\* command_result after the status command: 21 bytes (unlocked, paused,
\* auto-pause 100), a short result, 21 bytes that start like the short one,
\* and a result one byte too long
StatusPacket == <<STATUS_FLAG_FALSE, STATUS_FLAG_TRUE, 100, 0>> \o ZeroBytes(17)
ResultReads ==
  {StatusPacket, <<1, 2, 0, 100>>, <<1, 2, 0, 100>> \o ZeroBytes(17),
   StatusPacket \o <<0>>}

\* A 3-byte record in the device's layout: the duration's low 16 bits in bytes
\* 0 and 1, its bits 16..17 in the low 2 bits of byte 2, the facet above them.
EncodeRecord(facet, duration) ==
  <<duration % 256, (duration \div 256) % 256,
    (facet * 4) + ((duration \div 65536) % 4)>>

\* A history packet: its first record carries the counter in its low 16 bits
\* (with the given facet), the other six are records of facets f+1..f+6.
HistoryPacket(count, f) ==
  EncodeRecord(f, count) \o EncodeRecord(f + 1, 10) \o EncodeRecord(f + 2, 70000)
    \o EncodeRecord(f + 3, 30) \o EncodeRecord(f + 1, 40) \o EncodeRecord(f + 5, 262143)
    \o EncodeRecord(f + 6, 60)

\* what command_result yields during get_history in the session model
SessionHistoryReads == {EmptyPacket, HistoryPacket(3, 0)}

TimeInputs == {-1, 300, 70000}
\* a version and a value int.to_bytes(.., 4, ..) rejects
VersionInputs == {7, -1}

\* ------------------------------------------- coroutines made and run later
\* The argument a coroutine of the operation is made with.
ArgsOf(name) ==
  IF name = "login" THEN {BytesVal(p) : p \in Passwords}
  ELSE IF name = "set_auto_pause" THEN {IntVal(tm) : tm \in TimeInputs}
  ELSE IF name = "set_current_calibration_version" THEN {IntVal(v) : v \in VersionInputs}
  ELSE {None}

\* The event loop runs a coroutine made earlier for the first time: the body
\* runs up to its first transport call, in the state the client is in now.
Start(t) ==
  /\ pc[t] = "created"
  /\ arg' = [arg EXCEPT ![t] = None]
  /\ \/ op[t] = "disconnect" /\ DisconnectBody(t, ctx[t])
     \/ op[t] = "battery_level" /\ BatteryLevelBody(t, ctx[t])
     \/ op[t] = "firmware_revision" /\ FirmwareRevisionBody(t, ctx[t])
     \/ op[t] = "login" /\ LoginBody(t, ctx[t], arg[t].val)
     \/ op[t] = "setup_facets" /\ SetupFacetsBody(t, ctx[t])
     \/ op[t] = "stop_setup_facets" /\ StopSetupFacetsBody(t, ctx[t])
     \/ op[t] = "get_status" /\ GetStatusBody(t, ctx[t])
     \/ op[t] = "unpause" /\ UnpauseBody(t, ctx[t])
     \/ op[t] = "get_history" /\ GetHistoryBody(t, ctx[t])
     \/ op[t] = "clear_history" /\ ClearHistoryBody(t, ctx[t])
     \/ op[t] = "set_auto_pause" /\ SetAutoPauseBody(t, ctx[t], arg[t].val)
     \/ op[t] = "reset_calibration" /\ ResetCalibrationBody(t, ctx[t])
     \/ op[t] = "get_current_facet" /\ GetCurrentFacetBody(t, ctx[t])
     \/ op[t] = "get_current_calibration_version"
          /\ GetCurrentCalibrationVersionBody(t, ctx[t])
     \/ op[t] = "set_current_calibration_version"
          /\ SetCurrentCalibrationVersionBody(t, ctx[t], arg[t].val)

\* ---------------------------------------------------- the session model
\* Completions of pending transport calls.
ConnectComplete(t) ==
  \/ \E o \in Outcomes, r \in ConnectReturns : ConnectLinkDone(t, o, r)
  \/ \E o \in Outcomes, f \in FacetReads : ConnectProbeDone(t, o, f)

GatedComplete(t) ==
  \/ \E o \in Outcomes : DisconnectStopNotifyDone(t, o)
  \/ \E o \in Outcomes : DisconnectLinkDone(t, o)
  \/ \E o \in Outcomes, d \in BatteryReads : BatteryReadDone(t, o, d)
  \/ \E o \in Outcomes, d \in FirmwareReads : FirmwareReadDone(t, o, d)
  \/ \E o \in Outcomes : LoginWriteDone(t, o)
  \/ \E o \in Outcomes, f \in FacetReads : LoginProbeDone(t, o, f)
  \/ \E o \in Outcomes : SetupStartNotifyDone(t, o)
  \/ \E o \in Outcomes : StopStopNotifyDone(t, o)
  \/ \E o \in Outcomes : CommandWriteDone(t, o)
  \/ \E o \in Outcomes, e \in EchoReads : CommandEchoDone(t, o, e)
  \/ \E o \in Outcomes, d \in ResultReads : ResultReadDone(t, o, d)
  \/ \E o \in Outcomes, d \in FacetReads : IntReadDone(t, o, d)
  \/ \E o \in Outcomes : CalibrationWriteDone(t, o)

Complete(t) == ConnectComplete(t) \/ GatedComplete(t)

\* Awaited calls of the gated operations.
GatedInvoke(t) ==
  \/ Disconnect(t)
  \/ BatteryLevel(t)
  \/ FirmwareRevision(t)
  \/ \E p \in Passwords : Login(t, p)
  \/ SetupFacets(t)
  \/ StopSetupFacets(t)
  \/ GetStatus(t)
  \/ Unpause(t)
  \/ GetHistory(t)
  \/ ClearHistory(t)
  \/ \E tm \in TimeInputs : SetAutoPause(t, tm)
  \/ ResetCalibration(t)
  \/ GetCurrentFacet(t)
  \/ GetCurrentCalibrationVersion(t)
  \/ \E v \in VersionInputs : SetCurrentCalibrationVersion(t, v)

\* Awaited calls of the public operations.
Invoke(t) == Connect(t) \/ GatedInvoke(t)

\* Coroutines of the gated operations made for later.
Spawn(t) ==
  \E name \in ConnectedGatedOps \cup LoginGatedOps :
    \E a \in ArgsOf(name) : Create(t, name, a)

\* One caller drives the client through whole sessions.
Next ==
  \/ Invoke("A")
  \/ Spawn("A")
  \/ Start("A")
  \/ Complete("A")
  \/ \E o \in Outcomes, d \in SessionHistoryReads : HistoryReadDone("A", o, d)

Spec == Init /\ [][Next]_vars

\* ------------------------------------------- two callers on one session
\* The session after connect() and a login() whose probe read was not empty.
InitLoggedIn ==
  /\ logged_in = TRUE
  /\ connected = TRUE
  /\ calibrated = FALSE
  /\ auto_pause_time = None
  /\ COMMANDS = COMMANDS0
  /\ link = TRUE
  /\ subscribed = FALSE
  /\ InitTasks([t \in Tasks |-> "none"])
  /\ codec = CodecIdle

\* Both tasks issue the operations built on _run_command, in any interleaving
\* of their awaits.
NextConcurrent ==
  \E t \in Tasks :
    \/ GetStatus(t)
    \/ Unpause(t)
    \/ GetHistory(t)
    \/ ClearHistory(t)
    \/ \E tm \in TimeInputs : SetAutoPause(t, tm)
    \/ ResetCalibration(t)
    \/ \E o \in Outcomes : CommandWriteDone(t, o)
    \/ \E o \in Outcomes, e \in EchoReads : CommandEchoDone(t, o, e)
    \/ \E o \in Outcomes, d \in ResultReads : ResultReadDone(t, o, d)
    \/ \E o \in Outcomes, d \in SessionHistoryReads : HistoryReadDone(t, o, d)

SpecConcurrent == InitLoggedIn /\ [][NextConcurrent]_vars

\* ------------------------------- a gate passed before the flag changes
\* Task A connects and logs in again and again on the session (a probe read
\* that is empty clears logged_in, a transport connect() that returns a false
\* value clears connected) while task B calls the gated operations, awaited at
\* once or as coroutines that are started later.
NextDeferred ==
  \/ Connect("A")
  \/ \E p \in Passwords : Login("A", p)
  \/ ConnectComplete("A")
  \/ \E o \in Outcomes : LoginWriteDone("A", o)
  \/ \E o \in Outcomes, f \in FacetReads : LoginProbeDone("A", o, f)
  \/ GatedInvoke("B")
  \/ Spawn("B")
  \/ Start("B")
  \/ GatedComplete("B")
  \/ \E o \in Outcomes, d \in SessionHistoryReads : HistoryReadDone("B", o, d)

SpecDeferred == InitLoggedIn /\ [][NextDeferred]_vars

\* ------------------------------------------------- async with client: ...
\* A fresh client about to be entered by task A.
InitContext ==
  /\ logged_in = FALSE
  /\ connected = FALSE
  /\ calibrated = FALSE
  /\ auto_pause_time = None
  /\ COMMANDS = COMMANDS0
  /\ link = FALSE
  /\ subscribed = FALSE
  /\ InitTasks([t \in Tasks |-> IF t = "A" THEN "enter" ELSE "none"])
  /\ codec = CodecIdle

NextContext ==
  \/ AEnter("A")
  \/ AExit("A")
  \/ Invoke("A")
  \/ Complete("A")
  \/ \E o \in Outcomes, d \in SessionHistoryReads : HistoryReadDone("A", o, d)

SpecContext == InitContext /\ [][NextContext]_vars

\* ------------------------------------------------- get_history's decoding
\* Packets the device may stream: counters below, at and above 7 and 14, one
\* with a high counter byte, two facet bases, and a result that is too short.
HistoryCounters == {0, 3, 7, 8, 14, 15, 300}
HistoryReads ==
  {EmptyPacket, <<1, 2, 0, 100>>}
    \cup {HistoryPacket(c, f) : c \in HistoryCounters, f \in {0, 10}}

NextHistory ==
  \/ GetHistory("A")
  \/ \E o \in Outcomes : CommandWriteDone("A", o)
  \/ \E o \in Outcomes, d \in HistoryReads : HistoryReadDone("A", o, d)

SpecHistory == InitLoggedIn /\ [][NextHistory]_vars

\* get_history against a device that answers every call and streams packets
\* of 21 bytes: the write and the reads succeed, and the all-zero packet is
\* eventually delivered to a pending read (weak fairness on that delivery).
StreamPackets == {d \in HistoryReads : Len(d) = 21}

NextHistoryStream ==
  \/ GetHistory("A")
  \/ CommandWriteDone("A", "ok")
  \/ \E d \in StreamPackets : HistoryReadDone("A", "ok", d)

SpecHistoryStream ==
  /\ InitLoggedIn
  /\ [][NextHistoryStream]_vars
  /\ WF_vars(HistoryReadDone("A", "ok", EmptyPacket))

\* ------------------------------------------------ the 3-byte record codec
\* Durations at the byte and field boundaries of the 18-bit field, and a
\* stride through its whole range.
CodecDurations ==
  {0, 1, 255, 256, 257, 65535, 65536, 65537, 131071, 131072, 196608, 262143}
    \cup {k * 4099 : k \in 0..63}

InitCodec ==
  /\ logged_in = FALSE
  /\ connected = FALSE
  /\ calibrated = FALSE
  /\ auto_pause_time = None
  /\ COMMANDS = COMMANDS0
  /\ link = FALSE
  /\ subscribed = FALSE
  /\ InitTasks([t \in Tasks |-> "none"])
  /\ codec \in {[CodecIdle EXCEPT !.stage = "input", !.facet = f, !.duration = d] :
                  f \in 0..63, d \in CodecDurations}

\* The device packs (facet, duration) into a record.
CodecEncode ==
  /\ codec.stage = "input"
  /\ codec' = [codec EXCEPT !.stage = "encoded",
                            !.record = EncodeRecord(codec.facet, codec.duration)]
  /\ UNCHANGED <<session, COMMANDS, transport, locals, pc, op, outcome, ret, calls,
                 reads, ctx>>

\* get_history unpacks the record.
CodecDecode ==
  /\ codec.stage = "encoded"
  /\ codec' = [codec EXCEPT !.stage = "decoded", !.result = DecodeRecord(codec.record)]
  /\ UNCHANGED <<session, COMMANDS, transport, locals, pc, op, outcome, ret, calls,
                 reads, ctx>>

NextCodec == CodecEncode \/ CodecDecode

SpecCodec == InitCodec /\ [][NextCodec]_vars

\* ================================================================ claims
\* What a caller sees of its own operation.
TaskView(t) == <<pc[t], op[t], outcome[t], ret[t], calls[t], reads[t]>>

StopNotifyCall == Call("stop_notify", "facet", <<>>)
LinkDisconnectCall == Call("disconnect", "", <<>>)

\* C1: a login-gated operation called while logged_in is false raises
\* CommandRequiresLoginException at once, issues no transport call and
\* changes none of the three session flags.
C1_LoginGateRejects ==
  [][\A t \in Tasks :
       (/\ pc[t] = "idle"
        /\ ~logged_in
        /\ TaskView(t)' # TaskView(t)
        /\ op'[t] \in LoginGatedOps)
       => /\ outcome'[t] = "CommandRequiresLoginException"
          /\ pc'[t] = "idle"
          /\ calls'[t] = <<>>
          /\ UNCHANGED <<logged_in, connected, calibrated>>]_vars

\* C1 witness: get_history was refused on a connected, unauthenticated session.
C1_Witness ==
  \E t \in Tasks :
    /\ op[t] = "get_history"
    /\ outcome[t] = "CommandRequiresLoginException"
    /\ connected /\ ~logged_in

\* C2 (as claimed): once disconnect(), admitted with connected true, is over
\* (returned or raised), connected, logged_in and calibrated are all false.
C2_DisconnectClearsFlags ==
  \A t \in Tasks :
    (op[t] = "disconnect" /\ pc[t] = "idle" /\ outcome[t] # "NotConnectedException")
      => (~connected /\ ~logged_in /\ ~calibrated)

\* C3 (as claimed): logged_in implies connected, and calibrated implies logged_in.
C3_FlagInvariants == (logged_in => connected) /\ (calibrated => logged_in)

\* A task is inside a command exchange: it has written its command and the
\* read of the echo or of the result that belongs to it has not completed.
InExchange(t) == pc[t] \in {"command_echo", "result_read", "history_read"}

\* C4 (as claimed): two tasks are never inside a command exchange at the same
\* time (the later of the two writes would fall between the other task's
\* write and its read).
C4_ExchangesSerialized ==
  \A t1, t2 \in Tasks : (t1 # t2) => ~(InExchange(t1) /\ InExchange(t2))

\* C5: a disconnect() admitted while calibrated issues stop_notify on the
\* facet characteristic first, and the transport disconnect only after it;
\* a disconnect() admitted while not calibrated issues no stop_notify.
C5_UnsubscribeBeforeDisconnect ==
  \A t \in Tasks :
    (op[t] = "disconnect" /\ outcome[t] # "NotConnectedException"
       /\ pc[t] # "created")
      => IF calibrated
         THEN /\ calls[t][1] = StopNotifyCall
              /\ \A i \in 1..Len(calls[t]) :
                   calls[t][i] = LinkDisconnectCall
                     => \E j \in 1..(i - 1) : calls[t][j] = StopNotifyCall
         ELSE \A i \in 1..Len(calls[t]) : calls[t][i] # StopNotifyCall

\* C5 witness: a disconnect() of a notifying session returned after both calls.
C5_Witness ==
  \E t \in Tasks :
    /\ op[t] = "disconnect" /\ outcome[t] = "returned" /\ calibrated
    /\ calls[t] = <<StopNotifyCall, LinkDisconnectCall>>

\* C6: in a verified command, the write to command_input comes first and the
\* echo read second; once a pair (echoed opcode, status) has been read, the
\* command fails with CommandExecutionException exactly when the echoed
\* opcode differs from the first byte written or the status is not 0x02.
C6_EchoVerification ==
  \A t \in Tasks :
    (op[t] \in {"get_status", "set_auto_pause"} /\ Len(calls[t]) > 0)
      => /\ calls[t][1][1] = "write" /\ calls[t][1][2] = "command_input"
         /\ \A i \in 1..Len(calls[t]) :
              (calls[t][i][1] = "read" /\ calls[t][i][2] = "command_input") => i = 2
         /\ (Len(reads[t]) > 0 /\ Len(reads[t][1]) = 2)
              => ((outcome[t] # "CommandExecutionException")
                    <=> (reads[t][1][1] = calls[t][1][3][1] /\ reads[t][1][2] = 2))
         /\ (outcome[t] = "CommandExecutionException")
              => (Len(reads[t]) = 1 /\ Len(reads[t][1]) = 2)

\* C6 witness: set_auto_pause failed on an echo with status OK but the opcode
\* of another command.
C6_Witness ==
  \E t \in Tasks :
    /\ op[t] = "set_auto_pause"
    /\ outcome[t] = "CommandExecutionException"
    /\ reads[t] = << <<16, 2>> >>

\* C7 (as claimed): when "async with" is over for a task, by __aenter__
\* failing after the link came up or by __aexit__ finishing, a transport
\* disconnect has been issued, after a stop_notify if the session was notifying.
C7_ContextCleanup ==
  \A t \in Tasks :
    ((ctx[t] = "failed" /\ outcome[t] # "NotConnectedException") \/ ctx[t] = "exited")
      => /\ \E i \in 1..Len(calls[t]) : calls[t][i] = LinkDisconnectCall
         /\ calibrated => calls[t][1] = StopNotifyCall

RECURSIVE SumOfLengths(_, _)
SumOfLengths(f, S) ==
  IF S = {} THEN 0
  ELSE LET x == CHOOSE y \in S : TRUE
       IN  Len(f[x]) + SumOfLengths(f, S \ {x})

\* The number of entries of a get_history result, over all facets.
TotalEntries(r) == SumOfLengths(r.val, DOMAIN r.val)

\* The leading 2-byte little-endian counter of a packet.
LeadingCounter(p) == p[1] + 256 * p[2]

Min(a, b) == IF a < b THEN a ELSE b

\* C8: when get_history returns after N >= 1 packets and the sentinel, and the
\* last packet's leading counter C is at most 7N, the result holds exactly C
\* entries, whatever the counters of the earlier packets were.
C8_TrimToLastCounter ==
  \A t \in Tasks :
    (op[t] = "get_history" /\ outcome[t] = "returned" /\ Len(reads[t]) >= 2)
      => LET N == Len(reads[t]) - 1
             C == LeadingCounter(reads[t][N])
         IN  C <= 7 * N => TotalEntries(ret[t]) = C

\* C8 witness: two packets with counters 14 and then 3 gave 3 entries.
C8_Witness ==
  \E t \in Tasks :
    /\ op[t] = "get_history" /\ outcome[t] = "returned"
    /\ Len(reads[t]) = 3
    /\ LeadingCounter(reads[t][1]) = 14
    /\ LeadingCounter(reads[t][2]) = 3
    /\ TotalEntries(ret[t]) = 3

\* C9: in get_history no read completes after the first all-zero 21-byte
\* packet; when that packet arrives the operation returns at once, with no
\* further read issued, and the result counts only records of the packets
\* before it (none when it came first).
C9_SentinelTerminates ==
  \A t \in Tasks :
    op[t] = "get_history"
      => /\ \A i \in 1..(Len(reads[t]) - 1) : reads[t][i] # ZeroBytes(21)
         /\ (Len(reads[t]) > 0 /\ reads[t][Len(reads[t])] = ZeroBytes(21))
              => LET N == Len(reads[t]) - 1
                 IN  /\ pc[t] = "idle" /\ outcome[t] = "returned"
                     /\ Len(calls[t]) = 1 + Len(reads[t])
                     /\ TotalEntries(ret[t]) =
                          IF N = 0 THEN 0
                          ELSE Min(LeadingCounter(reads[t][N]), 7 * N)

\* C9 witness: the sentinel came first and the result is empty.
C9_Witness ==
  \E t \in Tasks :
    /\ op[t] = "get_history" /\ outcome[t] = "returned"
    /\ reads[t] = <<ZeroBytes(21)>>
    /\ DOMAIN ret[t].val = {}

\* C10: a (facet, duration) pair with facet in 0..63 and duration below 2^18,
\* packed into a record by the documented layout and unpacked the way
\* get_history unpacks a record, comes back unchanged.
C10_RecordRoundTrip ==
  codec.stage = "decoded" => codec.result = <<codec.facet, codec.duration>>

\* C10 witness: the largest facet with the largest duration went through.
C10_Witness ==
  codec.stage = "decoded" /\ codec.facet = 63 /\ codec.duration = 262143

\* C11 (as claimed): get_status, when command_result yields the bytes
\* 01 02 00 64 after the verified status command, returns locked false,
\* paused true and an auto-pause time of 0x0064.
C11_StatusScenario ==
  \A t \in Tasks :
    (op[t] = "get_status" /\ Len(reads[t]) = 2 /\ reads[t][2] = <<1, 2, 0, 100>>)
      => /\ outcome[t] = "returned"
         /\ ret[t] = [kind |-> "status", locked |-> FALSE, paused |-> TRUE,
                      auto_pause_time |-> 100]

\* C11 (amended): on the 4 bytes 01 02 00 64 get_status raises
\* CommandResultException; on a 21-byte result that starts with them it
\* returns locked true (0x01 is the true flag), paused false and the
\* auto-pause time 0x6400 (bytes 00 64 read little-endian).
C11_StatusScenarioAmended ==
  \A t \in Tasks :
    (op[t] = "get_status" /\ Len(reads[t]) = 2)
      => /\ reads[t][2] = <<1, 2, 0, 100>>
              => outcome[t] = "CommandResultException"
         /\ reads[t][2] = <<1, 2, 0, 100, 0, 0, 0, 0, 0, 0, 0, 0, 0, 0, 0, 0, 0, 0, 0, 0, 0>>
              => /\ outcome[t] = "returned"
                 /\ ret[t] = [kind |-> "status", locked |-> TRUE, paused |-> FALSE,
                              auto_pause_time |-> 25600]

\* C11 witness: get_status returned on the 21-byte result starting 01 02 00 64.
C11_Witness ==
  \E t \in Tasks :
    /\ op[t] = "get_status" /\ outcome[t] = "returned"
    /\ Len(reads[t]) = 2 /\ Len(reads[t][2]) = 21
    /\ Slice(reads[t][2], 0, 4) = <<1, 2, 0, 100>>

\* C12: set_auto_pause on an authenticated session, whether awaited at once
\* or run later as a coroutine made while authenticated, is either accepted
\* with an argument in 0..65535, or its body raises ValueError as its first
\* act, with no transport call issued and the session flags, auto_pause_time
\* and the command table unchanged; so every argument outside 0..65535 is
\* refused.
C12_AutoPauseRange ==
  [][\A t \in Tasks :
       (/\ \/ pc[t] = "idle" /\ logged_in
           \/ pc[t] = "created" /\ op[t] = "set_auto_pause"
        /\ TaskView(t)' # TaskView(t)
        /\ op'[t] = "set_auto_pause"
        /\ pc'[t] # "created")
       => \/ /\ outcome'[t] = "running"
             /\ pc'[t] = "command_write"
             /\ time'[t] \in 0..65535
          \/ /\ outcome'[t] = "ValueError"
             /\ pc'[t] = "idle"
             /\ calls'[t] = <<>>
             /\ UNCHANGED <<logged_in, connected, calibrated, auto_pause_time, COMMANDS>>]_vars

\* C12 witness: set_auto_pause was refused with ValueError on an authenticated
\* session, before any transport call.
C12_Witness ==
  \E t \in Tasks :
    /\ op[t] = "set_auto_pause" /\ outcome[t] = "ValueError"
    /\ logged_in /\ calls[t] = <<>>

\* C13 (as claimed): a connect() that returns normally leaves connected true
\* (so that the connected-gated operations are admitted afterwards).
C13_ConnectOutcomes ==
  \A t \in Tasks :
    (op[t] = "connect" /\ outcome[t] = "returned") => connected

\* C14: a connected-gated operation (disconnect, login, battery_level,
\* firmware_revision) called while connected is false raises
\* NotConnectedException at once, issues no transport call and changes none
\* of the session flags.
C14_ConnectedGateRejects ==
  [][\A t \in Tasks :
       (/\ pc[t] = "idle"
        /\ ~connected
        /\ TaskView(t)' # TaskView(t)
        /\ op'[t] \in ConnectedGatedOps)
       => /\ outcome'[t] = "NotConnectedException"
          /\ pc'[t] = "idle"
          /\ calls'[t] = <<>>
          /\ UNCHANGED <<logged_in, connected, calibrated, auto_pause_time,
                         link, subscribed>>]_vars

\* C14 witness: login was refused on a session that never connected.
C14_Witness ==
  \E t \in Tasks :
    /\ op[t] = "login" /\ outcome[t] = "NotConnectedException"
    /\ ~connected /\ calls[t] = <<>>

\* C15: get_status, the caller of _run_command_and_read_output, issues its
\* transport calls in the order write command_input, read command_input, read
\* command_result, the last one once and only after the echo named the
\* command and COMMAND_OK; once the result was delivered the call returns
\* exactly when it is 21 bytes long and raises CommandResultException for
\* every other length; after CommandExecutionException no result was read.
C15_RunCommandAndReadOutput ==
  \A t \in Tasks :
    op[t] = "get_status" =>
      /\ Len(calls[t]) <= 3
      /\ Len(calls[t]) >= 1 => calls[t][1] = Call("write", "command_input", <<16>>)
      /\ Len(calls[t]) >= 2 => calls[t][2] = Call("read", "command_input", <<>>)
      /\ Len(calls[t]) = 3
           => /\ calls[t][3] = Call("read", "command_result", <<>>)
              /\ Len(reads[t]) >= 1
              /\ reads[t][1] = <<16, COMMAND_OK>>
      /\ outcome[t] = "CommandExecutionException" => Len(calls[t]) = 2
      /\ Len(reads[t]) = 2
           => /\ pc[t] = "idle"
              /\ (outcome[t] = "returned") <=> (Len(reads[t][2]) = 21)
              /\ (outcome[t] = "CommandResultException") <=> (Len(reads[t][2]) # 21)
      /\ outcome[t] = "returned" => Len(reads[t]) = 2

\* C15 witness: a 22-byte result was read after a verified status command
\* and refused.
C15_Witness ==
  \E t \in Tasks :
    /\ op[t] = "get_status" /\ outcome[t] = "CommandResultException"
    /\ Len(reads[t]) = 2 /\ Len(reads[t][2]) = 22

\* C16 (as claimed): the command table never changes, and every accepted
\* set_auto_pause(time) writes exactly the three bytes 0x05, time mod 256,
\* time div 256 to command_input.
C16_CommandTableImmutable ==
  /\ COMMANDS = COMMANDS0
  /\ \A t \in Tasks :
       (op[t] = "set_auto_pause" /\ Len(calls[t]) >= 1)
         => calls[t][1] = Call("write", "command_input",
                               <<5, time[t] % 256, time[t] \div 256>>)

\* C17: a login() that returns has written the password to password_input
\* and then read the facet characteristic, and nothing else, and leaves
\* logged_in true exactly when that read was not empty (no read value is
\* excluded as a placeholder: the code compares the first byte, an int, with
\* b""); in particular a login whose probe read is empty on a session that
\* was logged in leaves logged_in false.
C17_LoginHeuristic ==
  [][\A t \in Tasks :
       (pc[t] = "login_probe" /\ pc'[t] = "idle" /\ outcome'[t] = "returned")
         => /\ Len(calls'[t]) = 2
            /\ \E pw \in Passwords :
                 calls'[t][1] = Call("write", "password_input", pw)
            /\ calls'[t][2] = Call("read", "facet", <<>>)
            /\ Len(reads'[t]) = 1
            /\ logged_in' = (reads'[t][1] # <<>>)
            /\ UNCHANGED <<connected, calibrated>>]_vars

\* C17 witness: a session that had logged in and subscribed logs in again,
\* the probe read is empty, and logged_in is false on return.
C17_Witness ==
  \E t \in Tasks :
    /\ op[t] = "login" /\ outcome[t] = "returned"
    /\ reads[t] = << <<>> >>
    /\ calibrated /\ ~logged_in

\* C18 (as claimed): once stop_setup_facets(), admitted with logged_in true,
\* has completed its stop_notify and returned, calibrated is false.
C18_StopClearsCalibrated ==
  \A t \in Tasks :
    (op[t] = "stop_setup_facets" /\ outcome[t] = "returned") => ~calibrated

\* C19 (as claimed): when setup_facets() raises because start_notify on the
\* facet characteristic failed, calibrated is false.
C19_CalibratedOnlyOnSuccess ==
  \A t \in Tasks :
    (op[t] = "setup_facets" /\ pc[t] = "idle" /\ outcome[t] = "BleakError")
      => ~calibrated

\* C20: against a device that streams 21-byte packets, get_history writes the
\* history command once, as its first transport call, and every later call is
\* a read of command_result; it returns only on the all-zero packet, and
\* while every packet read so far is non-zero it is still running with the
\* next read pending, however many packets that is; and whenever a read is
\* pending and the all-zero packet is eventually delivered, it returns.
C20_HistoryTermination ==
  /\ [](\A t \in Tasks :
          (op[t] = "get_history" /\ Len(calls[t]) >= 1)
            => /\ calls[t][1] = Call("write", "command_input", <<1>>)
               /\ \A i \in 2..Len(calls[t]) :
                    calls[t][i] = Call("read", "command_result", <<>>)
               /\ outcome[t] = "returned"
                    => /\ Len(reads[t]) >= 1
                       /\ reads[t][Len(reads[t])] = ZeroBytes(21)
               /\ (\A i \in 1..Len(reads[t]) : reads[t][i] # ZeroBytes(21))
                    => /\ outcome[t] = "running"
                       /\ pc[t] \in {"command_write", "history_read"}
                       /\ pc[t] = "history_read" => Len(calls[t]) = Len(reads[t]) + 2)
  /\ \A t \in Tasks :
       (pc[t] = "history_read") ~> (pc[t] = "idle" /\ outcome[t] = "returned")

\* C20 witness: two non-zero packets were read and the third read is pending.
C20_Witness ==
  \E t \in Tasks :
    /\ op[t] = "get_history" /\ pc[t] = "history_read"
    /\ Len(reads[t]) = 2
    /\ \A i \in 1..2 : reads[t][i] # ZeroBytes(21)
    /\ Len(calls[t]) = 4

====
